---- MODULE Spec2Model ----
(***************************************************************************)
(* QueenSolver.py: the "peaceable armies of queens" pipeline.              *)
(*   writeCNF(n, k, outputFile)  encodes the problem as a DIMACS file      *)
(*   solveCNF(cnfFile)           runs glucose and parses its stdout        *)
(*   decodeSolution(n, model)    renders the model as a board              *)
(*   main()                      argument check, then the three in order   *)
(* Cells are (i, j) with 0 <= i, j < n, as in the source.                  *)
(***************************************************************************)
EXTENDS Integers, Sequences, FiniteSets, TLC

VARIABLES
    pc,        \* position in the pipeline
    caller,    \* "main": main() drives; "api": the functions are called in order
    nArg,      \* n as supplied: <<>> is Python's None, <<v>> the integer v
    kArg,      \* k as supplied, same convention
    solve,     \* the --solve flag
    stats,     \* the --stats flag (printStats)
    glucose,   \* "installed" or "absent": can the subprocess be spawned
    file,      \* the CNF file: <<>> before it is written, else <<header, lines>>
    output,    \* result.stdout.splitlines()
    sat,       \* "None", "True" or "False"
    model,     \* list of non-zero signed integers
    board,     \* decoded board: a sequence of rows of symbols
    stdout,    \* what the program printed
    exc        \* "none", or the exception that ended the program

vars == <<pc, caller, nArg, kArg, solve, stats, glucose, file, output, sat,
          model, board, stdout, exc>>

(* ------------------------------ bounds -------------------------------- *)

\* largest board dimension explored
MaxN == 4
\* how far outside [0, n*n] the queen count k is drawn
KSlack == 2
\* largest number of cardinality clauses of an instance that is explored
MaxClauses == 1200
\* longest solver output (in lines) given to solveCNF on its own
MaxLines == 3
\* longest model given to decodeSolution on its own
MaxModelLen == 2

(* ------------------------------ helpers ------------------------------- *)

Abs(x) == IF x < 0 THEN -x ELSE x

\* range(a, b) as a sequence
Range(a, b) == [x \in 1..(IF b > a THEN b - a ELSE 0) |-> a + x - 1]

RECURSIVE Concat(_)
\* list concatenation of a list of lists, in order
Concat(ss) == IF ss = <<>> THEN <<>> ELSE Head(ss) \o Concat(Tail(ss))

\* the function f as an explicit table, each value computed once
Tabulated(f) == <<>> @@ f

\* the value held by a supplied argument
Val(a) == a[1]

\* Python truthiness of an optional integer: None and 0 are falsy
Truthy(a) == a /= <<>> /\ Val(a) /= 0

(* ------------------------------ writeCNF ------------------------------ *)

wVar(n, i, j) == i * n + j + 1

bVar(n, i, j) == n * n + i * n + j + 1

\* [(i,j) for i in range(n) for j in range(n)]
Cells(n) == Concat([i \in 1..n |-> [j \in 1..n |-> <<i - 1, j - 1>>]])

RECURSIVE Combinations(_, _)
\* itertools.combinations(s, r) for r >= 0, in its lexicographic order
Combinations(s, r) ==
    IF r = 0 THEN << <<>> >>
    ELSE IF Len(s) < r THEN <<>>
    ELSE LET rest == Combinations(Tail(s), r - 1)
         IN  [x \in 1..Len(rest) |-> <<Head(s)>> \o rest[x]]
             \o Combinations(Tail(s), r)

\* itertools.combinations raises ValueError("r must be non-negative")
CombinationsRaises(r) == r < 0

\* AtMostW with the combination size off by one (k+2 for k+1)
AtMostW_OffByOne(n, k) ==
    LET combis == Combinations(Cells(n), k + 2)
    IN  [x \in 1..Len(combis) |->
            [y \in 1..Len(combis[x]) |-> -wVar(n, combis[x][y][1], combis[x][y][2])]]

\* "At most k queens", white: no k+1 white variables all true
AtMostW(n, k) ==
    LET combis == Combinations(Cells(n), k + 1)
    IN  [x \in 1..Len(combis) |->
            [y \in 1..Len(combis[x]) |-> -wVar(n, combis[x][y][1], combis[x][y][2])]]

\* "At most k queens", black
AtMostB(n, k) ==
    LET combis == Combinations(Cells(n), k + 1)
    IN  [x \in 1..Len(combis) |->
            [y \in 1..Len(combis[x]) |-> -bVar(n, combis[x][y][1], combis[x][y][2])]]

\* "At least k queens", white: no n*n-k+1 white variables all false
AtLeastW(n, k) ==
    LET combis == Combinations(Cells(n), n * n - k + 1)
    IN  [x \in 1..Len(combis) |->
            [y \in 1..Len(combis[x]) |-> wVar(n, combis[x][y][1], combis[x][y][2])]]

\* AtLeastB with the combination size off by one (n*n-k for n*n-k+1)
AtLeastB_OffByOne(n, k) ==
    LET combis == Combinations(Cells(n), n * n - k)
    IN  [x \in 1..Len(combis) |->
            [y \in 1..Len(combis[x]) |-> bVar(n, combis[x][y][1], combis[x][y][2])]]

\* "At least k queens", black
AtLeastB(n, k) ==
    LET combis == Combinations(Cells(n), n * n - k + 1)
    IN  [x \in 1..Len(combis) |->
            [y \in 1..Len(combis[x]) |-> bVar(n, combis[x][y][1], combis[x][y][2])]]

\* RowClauses that also forbids two white queens in one row
RowClauses_SameArmy(n, i, j) ==
    LET js == SelectSeq(Range(0, n), LAMBDA jj : jj /= j)
    IN  [x \in 1..Len(js) |-> <<-wVar(n, i, j), -bVar(n, i, js[x])>>]
        \o [x \in 1..Len(js) |-> <<-wVar(n, i, j), -wVar(n, i, js[x])>>]

\* "for jj in range(n)": the row of the white queen at (i, j)
RowClauses(n, i, j) ==
    LET js == SelectSeq(Range(0, n), LAMBDA jj : jj /= j)
    IN  [x \in 1..Len(js) |-> <<-wVar(n, i, j), -bVar(n, i, js[x])>>]

\* "for ii in range(n)": the column of (i, j)
ColClauses(n, i, j) ==
    LET is == SelectSeq(Range(0, n), LAMBDA ii : ii /= i)
    IN  [x \in 1..Len(is) |-> <<-wVar(n, i, j), -bVar(n, is[x], j)>>]

InBoard(n, ii, jj) == 0 <= ii /\ ii < n /\ 0 <= jj /\ jj < n

\* DiagClauses that looks one step along the diagonal only
DiagClauses_Adjacent(n, i, j) ==
    LET ds == SelectSeq(<<-1, 1>>, LAMBDA d : InBoard(n, i + d, j + d))
    IN  [x \in 1..Len(ds) |-> <<-wVar(n, i, j), -bVar(n, i + ds[x], j + ds[x])>>]

\* first "for d in range(-n+1, n)": the diagonal (i+d, j+d)
DiagClauses(n, i, j) ==
    LET ds == SelectSeq(Range(-n + 1, n),
                        LAMBDA d : d /= 0 /\ InBoard(n, i + d, j + d))
    IN  [x \in 1..Len(ds) |-> <<-wVar(n, i, j), -bVar(n, i + ds[x], j + ds[x])>>]

\* second "for d in range(-n+1, n)": the diagonal (i+d, j-d)
AntiDiagClauses(n, i, j) ==
    LET ds == SelectSeq(Range(-n + 1, n),
                        LAMBDA d : d /= 0 /\ InBoard(n, i + d, j - d))
    IN  [x \in 1..Len(ds) |-> <<-wVar(n, i, j), -bVar(n, i + ds[x], j - ds[x])>>]

CellAttackClauses(n, i, j) ==
    RowClauses(n, i, j) \o ColClauses(n, i, j)
        \o DiagClauses(n, i, j) \o AntiDiagClauses(n, i, j)

\* "Ensures no two queens attack each others"
AttackClauses(n) ==
    LET cs == Cells(n)
    IN  Concat([x \in 1..Len(cs) |-> CellAttackClauses(n, cs[x][1], cs[x][2])])

\* "Each cell can contain at most one queen"
ExclusivityClauses(n) ==
    LET cs == Cells(n)
    IN  [x \in 1..Len(cs) |->
            <<-wVar(n, cs[x][1], cs[x][2]), -bVar(n, cs[x][1], cs[x][2])>>]

\* the list `clauses` when the file is written
Clauses(n, k) ==
    AtMostW(n, k) \o AtMostB(n, k) \o AtLeastW(n, k) \o AtLeastB(n, k)
        \o AttackClauses(n) \o ExclusivityClauses(n)

\* writeCNF raises before it opens the file
WriteRaises(n, k) == CombinationsRaises(k + 1) \/ CombinationsRaises(n * n - k + 1)

\* HeaderCount that counts the header line as well
HeaderCount_OffByOne(clauses) == Len(clauses) + 1

\* the clause count of the header line
HeaderCount(clauses) == Len(clauses)

\* one clause line: the literals, then the 0 sentinel
ClauseLine(c) == c \o <<0>>

\* the file's content: the header "p cnf maxVar len(clauses)" and the lines
CnfFile(n, clauses) ==
    << <<2 * n * n, HeaderCount(clauses)>>,
       [x \in 1..Len(clauses) |-> ClauseLine(clauses[x])] >>

(* ------------------------- the external solver ------------------------ *)

\* a token of a value line: an integer, or text that int() rejects
Tok(i) == [num |-> TRUE, val |-> i]

Junk == [num |-> FALSE, val |-> 0]

\* output lines, by the prefix that solveCNF tests
SLine(text) == [mark |-> "s ", text |-> text, toks |-> <<>>]

VLine(toks) == [mark |-> "v ", text |-> "", toks |-> toks]

CLine == [mark |-> "c ", text |-> "stats", toks |-> <<>>]

OtherLine == [mark |-> "", text |-> "garbage", toks |-> <<>>]

\* what a DIMACS reader takes from the file: each line without its 0 sentinel
FileClauses(f) == [x \in 1..Len(f[2]) |-> SubSeq(f[2][x], 1, Len(f[2][x]) - 1)]

FileVars(f) == f[1][1]

\* the largest variable of a clause (0 for the empty clause)
RECURSIVE MaxVarOf(_)
MaxVarOf(c) ==
    IF c = <<>> THEN 0
    ELSE LET m == MaxVarOf(Tail(c))
         IN  IF Abs(Head(c)) > m THEN Abs(Head(c)) ELSE m

\* the clauses, grouped by their largest variable
ByMaxVar(cls, N) ==
    Tabulated([v \in 0..N |->
                  {cls[x] : x \in {y \in 1..Len(cls) : MaxVarOf(cls[y]) = v}}])

\* literal l is true under the assignment p (p[v] is the value of variable v)
LitTrue(l, p) == p[Abs(l)] = (l > 0)

\* p satisfies clause c (all of c's variables are assigned by p)
ClauseTrue(c, p) == \E x \in 1..Len(c) : LitTrue(c[x], p)

\* the total assignment p satisfies every clause
Satisfies(p, cls) == \A x \in 1..Len(cls) : ClauseTrue(cls[x], p)

RECURSIVE Extensions(_, _, _)
\* the satisfying total assignments that extend the partial assignment p:
\* a branch is dropped once a clause whose variables are all assigned is false
Extensions(p, byMax, N) ==
    IF \E c \in byMax[Len(p)] : ~ClauseTrue(c, p) THEN {}
    ELSE IF Len(p) = N THEN {p}
    ELSE Extensions(Append(p, TRUE), byMax, N)
             \cup Extensions(Append(p, FALSE), byMax, N)

\* every satisfying assignment of the file's formula
Models(f) == Extensions(<<>>, ByMaxVar(FileClauses(f), FileVars(f)), FileVars(f))

\* the value line glucose -model prints: every variable signed, then 0
ModelLine(p) ==
    VLine([v \in 1..(Len(p) + 1) |->
              IF v > Len(p) THEN Tok(0) ELSE IF p[v] THEN Tok(v) ELSE Tok(-v)])

\* what a working solver prints for the file
SolverAnswers(f) ==
    LET ms == Models(f)
    IN  IF ms = {} THEN {<<CLine, SLine("UNSATISFIABLE")>>}
        ELSE {<<CLine, SLine("SATISFIABLE"), ModelLine(p)>> : p \in ms}

\* what a solver that dies before answering leaves on stdout
SolverCrashOutputs == {<<>>, <<CLine>>}

(* ------------------------------ solveCNF ------------------------------ *)

\* int(p) raises ValueError on some token of some value line
ParseRaises(out) ==
    \E x \in 1..Len(out) :
        out[x].mark = "v " /\ \E y \in 1..Len(out[x].toks) : ~out[x].toks[y].num

RECURSIVE ParseSat(_, _)
\* the loop's effect on `sat`: the last status line decides
ParseSat(out, acc) ==
    IF out = <<>> THEN acc
    ELSE ParseSat(Tail(out),
                  IF Head(out).mark = "s "
                  THEN (IF Head(out).text = "UNSATISFIABLE" THEN "False" ELSE "True")
                  ELSE acc)

\* the non-zero integers of one value line, in order
LineValues(l) ==
    LET nz == SelectSeq(l.toks, LAMBDA t : t.val /= 0)
    IN  [x \in 1..Len(nz) |-> nz[x].val]

RECURSIVE ParseModel(_)
\* the loop's effect on `model`: every value line is appended, status or not
ParseModel(out) ==
    IF out = <<>> THEN <<>>
    ELSE (IF Head(out).mark = "v " THEN LineValues(Head(out)) ELSE <<>>)
             \o ParseModel(Tail(out))

\* the comment lines printed under printStats
StatsPrinted(out, printStats) ==
    IF printStats
    THEN <<"Solver Stats:">> \o
         LET cs == SelectSeq(out, LAMBDA l : l.mark = "c ")
         IN  [x \in 1..Len(cs) |-> cs[x].text]
    ELSE <<>>

(* ---------------------------- decodeSolution -------------------------- *)

\* set([v for v in model if v > 0])
TrueVars(m) == {m[x] : x \in {y \in 1..Len(m) : m[y] > 0}}

\* Symbol with the two tests in the other order
Symbol_BlackFirst(n, m, i, j) ==
    IF (n * n + i * n + j + 1) \in TrueVars(m) THEN "B"
    ELSE IF (i * n + j + 1) \in TrueVars(m) THEN "W"
    ELSE "."

\* the symbol of cell (i, j)
Symbol(n, m, i, j) ==
    IF (i * n + j + 1) \in TrueVars(m) THEN "W"
    ELSE IF (n * n + i * n + j + 1) \in TrueVars(m) THEN "B"
    ELSE "."

\* the board, row by row
DecodeSolution(n, m) == [i \in 1..n |-> [j \in 1..n |-> Symbol(n, m, i - 1, j - 1)]]

(* -------------------------------- state ------------------------------- *)

RECURSIVE Binom(_, _)
\* the number of r-element combinations of m items
Binom(m, r) ==
    IF r < 0 \/ r > m THEN 0
    ELSE IF r = 0 THEN 1
    ELSE (Binom(m, r - 1) * (m - r + 1)) \div r

\* C(n*n, k+1) + C(n*n, n*n-k+1) clauses per army
CardinalityClauseCount(n, k) ==
    2 * Binom(n * n, k + 1) + 2 * Binom(n * n, n * n - k + 1)

\* --n / --k: absent, or an integer
NArgs == {<<>>} \cup {<<v>> : v \in 0..MaxN}

KArgs(n) == {<<>>} \cup {<<v>> : v \in (-KSlack)..(n * n + KSlack)}

\* all sequences over S of length at most m
SeqsUpTo(S, m) == UNION {[1..l -> S] : l \in 0..m}

\* main() is entered with parsed arguments, or writeCNF / solveCNF /
\* decodeSolution are called in order on (n, k) by a library user
Init ==
    /\ caller \in {"main", "api"}
    /\ nArg \in NArgs
    /\ kArg \in KArgs(IF nArg = <<>> THEN 0 ELSE Val(nArg))
    /\ (nArg /= <<>> /\ kArg /= <<>>)
           => CardinalityClauseCount(Val(nArg), Val(kArg)) <= MaxClauses
    /\ caller = "api" => (nArg /= <<>> /\ Val(nArg) >= 1 /\ kArg /= <<>>)
    /\ solve \in BOOLEAN
    /\ stats \in BOOLEAN
    /\ caller = "api" => (solve /\ ~stats)
    /\ stats => solve
    /\ glucose \in {"installed", "absent"}
    /\ pc = IF caller = "main" THEN "main" ELSE "writeCNF"
    /\ file = <<>>
    /\ output = <<>>
    /\ sat = "None"
    /\ model = <<>>
    /\ board = <<>>
    /\ stdout = <<>>
    /\ exc = "none"

(* ------------------------------- actions ------------------------------ *)

\* main: "if not n or not k" prints the usage line and exits with status 1
Main_CheckArgs ==
    /\ pc = "main"
    /\ IF ~Truthy(nArg) \/ ~Truthy(kArg)
       THEN /\ stdout' = Append(stdout, "Please specify n and k.")
            /\ pc' = "exit1"
       ELSE /\ stdout' = stdout
            /\ pc' = "writeCNF"
    /\ UNCHANGED <<caller, nArg, kArg, solve, stats, glucose, file, output, sat,
                   model, board, exc>>

\* writeCNF(n, k, cnfFile): builds the clauses, then writes the file
WriteCNF ==
    /\ pc = "writeCNF"
    /\ IF WriteRaises(Val(nArg), Val(kArg))
       THEN /\ exc' = "ValueError"
            /\ pc' = "crashed"
            /\ file' = file
       ELSE /\ file' = CnfFile(Val(nArg), Clauses(Val(nArg), Val(kArg)))
            /\ pc' = IF caller = "main" /\ ~solve THEN "done" ELSE "solveCNF"
            /\ exc' = exc
    /\ UNCHANGED <<caller, nArg, kArg, solve, stats, glucose, output, sat, model,
                   board, stdout>>

\* solveCNF, subprocess.run: glucose answers for the file, or dies silently;
\* when the binary is absent subprocess.run raises FileNotFoundError
SolveCNF_Run ==
    /\ pc = "solveCNF"
    /\ caller \in {"main", "api"}
    /\ IF glucose = "absent"
       THEN /\ exc' = "FileNotFoundError"
            /\ pc' = "crashed"
            /\ output' = output
       ELSE /\ output' \in SolverAnswers(file) \cup SolverCrashOutputs
            /\ pc' = "parse"
            /\ exc' = exc
    /\ UNCHANGED <<caller, nArg, kArg, solve, stats, glucose, file, sat, model,
                   board, stdout>>

\* solveCNF, from splitlines() to the return
SolveCNF_Parse ==
    /\ pc = "parse"
    /\ IF ParseRaises(output)
       THEN /\ exc' = "ValueError"
            /\ pc' = "crashed"
            /\ UNCHANGED <<sat, model, stdout>>
       ELSE /\ sat' = ParseSat(output, "None")
            /\ model' = ParseModel(output)
            /\ stdout' = stdout \o StatsPrinted(output, stats)
            /\ pc' = CASE caller = "main" -> "report"
                       [] caller = "api" ->
                            IF sat' = "True" THEN "decodeSolution" ELSE "done"
                       [] OTHER -> "done"
            /\ exc' = exc
    /\ UNCHANGED <<caller, nArg, kArg, solve, stats, glucose, file, output, board>>

\* main: the three-way report after solveCNF returned
Main_Report ==
    /\ pc = "report"
    /\ IF sat = "None"
       THEN /\ stdout' = Append(stdout, "Error running solver.")
            /\ board' = board
       ELSE IF sat = "True"
       THEN /\ board' = DecodeSolution(Val(nArg), model)
            /\ stdout' = stdout \o <<"SAT", "<board>">>
       ELSE /\ stdout' = Append(stdout, "UNSAT")
            /\ board' = board
    /\ pc' = "done"
    /\ UNCHANGED <<caller, nArg, kArg, solve, stats, glucose, file, output, sat,
                   model, exc>>

\* decodeSolution(n, model) called on its own
DecodeSolutionCall ==
    /\ pc = "decodeSolution"
    /\ board' = DecodeSolution(Val(nArg), model)
    /\ pc' = "done"
    /\ UNCHANGED <<caller, nArg, kArg, solve, stats, glucose, file, output, sat,
                   model, stdout, exc>>

Next ==
    \/ Main_CheckArgs
    \/ WriteCNF
    \/ SolveCNF_Run
    \/ SolveCNF_Parse
    \/ Main_Report
    \/ DecodeSolutionCall

Spec == Init /\ [][Next]_vars

(* ---------------- solveCNF on a solver of unknown behaviour ----------- *)

\* value lines: empty, a model with its terminator, a 0 inside the line,
\* and a token that is not a number
ValueLines ==
    { VLine(<<>>),
      VLine(<<Tok(1), Tok(-2), Tok(0)>>),
      VLine(<<Tok(0), Tok(3)>>),
      VLine(<<Tok(2), Junk>>) }

LineAlphabet ==
    {SLine("SATISFIABLE"), SLine("UNSATISFIABLE"), SLine("INDETERMINATE"),
     CLine, OtherLine} \cup ValueLines

InitSolve ==
    /\ caller = "solveCNF"
    /\ pc = "solveCNF"
    /\ nArg = <<>>
    /\ kArg = <<>>
    /\ solve = TRUE
    /\ stats \in BOOLEAN
    /\ glucose \in {"installed", "absent"}
    /\ file = <<>>
    /\ output = <<>>
    /\ sat = "None"
    /\ model = <<>>
    /\ board = <<>>
    /\ stdout = <<>>
    /\ exc = "none"

\* subprocess.run with any program under the name glucose
SolveCNF_RunAny ==
    /\ pc = "solveCNF"
    /\ caller = "solveCNF"
    /\ IF glucose = "absent"
       THEN /\ exc' = "FileNotFoundError"
            /\ pc' = "crashed"
            /\ output' = output
       ELSE /\ output' \in SeqsUpTo(LineAlphabet, MaxLines)
            /\ pc' = "parse"
            /\ exc' = exc
    /\ UNCHANGED <<caller, nArg, kArg, solve, stats, glucose, file, sat, model,
                   board, stdout>>

NextSolve == SolveCNF_RunAny \/ SolveCNF_Parse

SpecSolve == InitSolve /\ [][NextSolve]_vars

(* ------------------- decodeSolution on any list of integers ----------- *)

\* the integers a model may hold: every variable and one beyond the last as
\* positive literals, 0, and the negative literals of the first white
\* variable, the first black variable and the one beyond the last
ModelValues(n) ==
    (0..(2 * n * n + 1)) \cup {-1, -(n * n + 1), -(2 * n * n + 1)}

InitDecode ==
    /\ caller = "decodeSolution"
    /\ pc = "decodeSolution"
    /\ nArg \in {<<v>> : v \in 1..MaxN}
    /\ kArg = <<>>
    /\ solve = FALSE
    /\ stats = FALSE
    /\ glucose = "installed"
    /\ file = <<>>
    /\ output = <<>>
    /\ sat = "True"
    /\ \E l \in 0..MaxModelLen : model \in [1..l -> ModelValues(Val(nArg))]
    /\ board = <<>>
    /\ stdout = <<>>
    /\ exc = "none"

NextDecode == DecodeSolutionCall

SpecDecode == InitDecode /\ [][NextDecode]_vars

(* ------------------------ vocabulary of the claims -------------------- *)

\* n and k were supplied, n >= 1 and 0 <= k <= n*n
InRange ==
    /\ nArg /= <<>>
    /\ kArg /= <<>>
    /\ Val(nArg) >= 1
    /\ 0 <= Val(kArg)
    /\ Val(kArg) <= Val(nArg) * Val(nArg)

Written == file /= <<>>

\* the cells of the n x n board, as a set
CellSet(n) == (0..(n - 1)) \X (0..(n - 1))

\* two distinct cells share a row, a column or a diagonal
Attacks(c1, c2) ==
    /\ c1 /= c2
    /\ \/ c1[1] = c2[1]
       \/ c1[2] = c2[2]
       \/ Abs(c1[1] - c2[1]) = Abs(c1[2] - c2[2])

\* the list m names every variable of 1..N exactly once, with a sign
IsTotal(m, N) ==
    /\ Len(m) = N
    /\ \A v \in 1..N : (\E x \in 1..N : m[x] = v) /= (\E x \in 1..N : m[x] = -v)

\* the truth assignment a list of literals stands for
AssignmentOf(m, N) == Tabulated([v \in 1..N |-> \E x \in 1..Len(m) : m[x] = v])

\* the state holds a verdict SAT whose model is a total satisfying assignment
HoldsSatisfyingModel ==
    /\ InRange
    /\ Written
    /\ sat = "True"
    /\ IsTotal(model, 2 * Val(nArg) * Val(nArg))
    /\ Satisfies(AssignmentOf(model, 2 * Val(nArg) * Val(nArg)), FileClauses(file))

WhiteCells(m, n) == {c \in CellSet(n) : \E x \in 1..Len(m) : m[x] = wVar(n, c[1], c[2])}

BlackCells(m, n) == {c \in CellSet(n) : \E x \in 1..Len(m) : m[x] = bVar(n, c[1], c[2])}

\* the cells of the decoded board that show the symbol s
BoardCells(s) ==
    {c \in CellSet(Len(board)) : board[c[1] + 1][c[2] + 1] = s}

(* -------------------------------- claims ------------------------------ *)

\* C1: for n >= 1 and 0 <= k <= n*n, every total assignment that satisfies
\* the clauses written by writeCNF(n, k) sets exactly k white and exactly k
\* black variables true and no cell's two variables both true; the board
\* decoded from it shows exactly k 'W' and exactly k 'B'.
C1_ExactlyKPerArmy ==
    HoldsSatisfyingModel =>
        /\ Cardinality(WhiteCells(model, Val(nArg))) = Val(kArg)
        /\ Cardinality(BlackCells(model, Val(nArg))) = Val(kArg)
        /\ WhiteCells(model, Val(nArg)) \cap BlackCells(model, Val(nArg)) = {}
        /\ board /= <<>> =>
               /\ Cardinality(BoardCells("W")) = Val(kArg)
               /\ Cardinality(BoardCells("B")) = Val(kArg)

\* C1 witness: a 4 x 4 board with two queens per army has been decoded
C1_Witness ==
    /\ HoldsSatisfyingModel
    /\ Val(nArg) = 4
    /\ Val(kArg) = 2
    /\ pc = "done"
    /\ Cardinality(BoardCells("W")) = 2
    /\ Cardinality(BoardCells("B")) = 2

\* C2: for n >= 1 and 0 <= k <= n*n, no assignment satisfying the clauses of
\* writeCNF(n, k) has a white queen on c1 and a black queen on c2 for
\* distinct cells c1, c2 that share a row, a column or a diagonal.
C2_NoCrossArmyAttack ==
    HoldsSatisfyingModel =>
        \A c1 \in WhiteCells(model, Val(nArg)) :
            \A c2 \in BlackCells(model, Val(nArg)) : ~Attacks(c1, c2)

\* C2 witness: a satisfying model that places queens of both armies
C2_Witness ==
    /\ HoldsSatisfyingModel
    /\ Val(nArg) = 4
    /\ WhiteCells(model, 4) = {<<0, 0>>, <<0, 1>>}
    /\ BlackCells(model, 4) = {<<1, 3>>, <<3, 2>>}

\* the queen counts are outside [0, n*n]
OutOfRange ==
    /\ nArg /= <<>>
    /\ kArg /= <<>>
    /\ Val(nArg) >= 1
    /\ (Val(kArg) < 0 \/ Val(kArg) > Val(nArg) * Val(nArg))

\* the output holds no line that starts with "s "
NoStatusLine == \A x \in 1..Len(output) : output[x].mark /= "s "

\* C3: when the solver's output holds no status line, solveCNF returns the
\* Error verdict (sat is None) with an empty assignment, whatever else the
\* output holds.
C3_NoStatusIsError ==
    (caller = "solveCNF" /\ glucose = "installed" /\ pc \in {"done", "crashed"}
        /\ NoStatusLine)
        => (pc = "done" /\ sat = "None" /\ model = <<>>)

\* C4: when the solver binary is absent, solveCNF returns the Error verdict
\* with an empty assignment and does not end abnormally, and main reports
\* the error.
C4_AbsentSolverIsError ==
    (glucose = "absent" /\ Written /\ pc \in {"done", "crashed"} /\ solve)
        => /\ exc = "none"
           /\ sat = "None"
           /\ model = <<>>
           /\ caller = "main" => stdout = <<"Error running solver.">>

\* C5: for n >= 1 and k outside [0, n*n], writeCNF does not crash: it
\* completes and writes a formula.
C5_OutOfRangeKNoCrash ==
    (OutOfRange /\ pc \notin {"main", "writeCNF", "exit1"})
        => (exc /= "ValueError" /\ Written)

\* C6: for n >= 1 and 0 <= k <= n*n, the header declares 2*n*n variables and
\* as many clauses as there are clause lines, and each clause line is one
\* clause closed by a single 0.
C6_HeaderMatchesLines ==
    (InRange /\ Written) =>
        /\ file[1][1] = 2 * Val(nArg) * Val(nArg)
        /\ file[1][2] = Len(file[2])
        /\ LET lines == file[2]
           IN  \A x \in 1..Len(lines) :
                   LET line == lines[x]
                   IN  /\ Len(line) >= 1
                       /\ \A y \in 1..Len(line) : (line[y] = 0) <=> (y = Len(line))

\* C6 witness: the file of writeCNF(3, 4) is on disk, cardinality clauses,
\* attack clauses and exclusivity clauses included
C6_Witness ==
    /\ InRange
    /\ Written
    /\ Val(nArg) = 3
    /\ Val(kArg) = 4
    /\ file[1] = <<18, CardinalityClauseCount(3, 4) + 56 + 9>>

\* the assignment that makes every variable false
AllFalse(N) == [v \in 1..N |-> FALSE]

\* C7: for n >= 1 the formula of writeCNF(n, 0) is satisfied by the
\* all-false assignment, and the formula of writeCNF(n, n*n) has no
\* satisfying assignment.
C7_Boundaries ==
    (InRange /\ Written /\ pc = "solveCNF") =>
        /\ Val(kArg) = 0 =>
               Satisfies(AllFalse(FileVars(file)), FileClauses(file))
        /\ Val(kArg) = Val(nArg) * Val(nArg) => Models(file) = {}

\* C7 witness: the solver answered UNSATISFIABLE for n = 4, k = 16
C7_Witness ==
    /\ InRange
    /\ Val(nArg) = 4
    /\ Val(kArg) = 16
    /\ pc = "done"
    /\ sat = "False"

\* the symbol the claim gives cell (i, j) for the list m
ExpectedSymbol(n, m, i, j) ==
    IF \E x \in 1..Len(m) : m[x] = wVar(n, i, j) THEN "W"
    ELSE IF \E x \in 1..Len(m) : m[x] = bVar(n, i, j) THEN "B"
    ELSE "."

\* C8: decodeSolution renders cell (i, j) with the encoder's variable IDs:
\* 'W' if the white ID occurs positively, else 'B' if the black ID occurs
\* positively, else '.'; literals outside 1..2*n*n change nothing.
C8_DecodeMatchesEncoderIds ==
    (caller = "decodeSolution" /\ pc = "done") =>
        /\ Len(board) = Val(nArg)
        /\ \A i \in 0..(Val(nArg) - 1) :
               /\ Len(board[i + 1]) = Val(nArg)
               /\ \A j \in 0..(Val(nArg) - 1) :
                      board[i + 1][j + 1] = ExpectedSymbol(Val(nArg), model, i, j)

\* C8 witness: both variables of the last cell of a 3 x 3 board are true,
\* black listed first, and the cell shows 'W'
C8_Witness ==
    /\ caller = "decodeSolution"
    /\ pc = "done"
    /\ Val(nArg) = 3
    /\ model = <<18, 9>>
    /\ board[3][3] = "W"

RECURSIVE KSubsets(_, _)
\* the k-element subsets of S
KSubsets(S, k) ==
    IF k = 0 THEN {{}}
    ELSE IF Cardinality(S) < k THEN {}
    ELSE LET x == CHOOSE y \in S : TRUE
         IN  KSubsets(S \ {x}, k) \cup {T \cup {x} : T \in KSubsets(S \ {x}, k - 1)}

\* the cells no queen of W stands on or attacks
FreeOf(W, n) == {c \in CellSet(n) \ W : \A w \in W : ~Attacks(w, c)}

\* the assignment of the board with white queens on W and black queens on B
BoardAssignment(W, B, n) ==
    Tabulated([v \in 1..(2 * n * n) |->
                  \E c \in CellSet(n) :
                      \/ c \in W /\ v = wVar(n, c[1], c[2])
                      \/ c \in B /\ v = bVar(n, c[1], c[2])])

\* C9: for n >= 1 and 0 <= k <= n*n, every board with k white and k black
\* queens on distinct cells, no white queen sharing a line with a black one,
\* satisfies every clause of writeCNF(n, k), queens of one army attacking
\* each other included.
C9_NoValidPlacementExcluded ==
    (InRange /\ Written /\ pc = "solveCNF") =>
        \A W \in KSubsets(CellSet(Val(nArg)), Val(kArg)) :
            \A B \in KSubsets(FreeOf(W, Val(nArg)), Val(kArg)) :
                Satisfies(BoardAssignment(W, B, Val(nArg)), FileClauses(file))

\* C9 witness: the solver returned a board whose two white queens share a
\* row and attack each other
C9_Witness ==
    /\ InRange
    /\ pc = "done"
    /\ sat = "True"
    /\ Val(nArg) = 4
    /\ Val(kArg) = 2
    /\ BoardCells("W") = {<<0, 0>>, <<0, 1>>}
    /\ BoardCells("B") = {<<1, 3>>, <<3, 2>>}

\* C10: main refuses (usage line, exit status 1, nothing written) only when
\* n or k was not supplied; for every supplied n >= 1 and 0 <= k <= n*n,
\* k = 0 included, it calls writeCNF and, with --solve, reports exactly one
\* of SAT, UNSAT or the solver error.  (Read on the claim's domain: a
\* supplied n < 1 is outside it.)
C10_RefusesOnlyWhenMissing ==
    /\ pc = "exit1" => (nArg = <<>> \/ kArg = <<>> \/ ~InRange)
    /\ (caller = "main" /\ InRange /\ pc \in {"done", "crashed", "exit1"}) =>
           /\ Written
           /\ solve =>
                  Cardinality({x \in 1..Len(stdout) :
                      stdout[x] \in {"SAT", "UNSAT", "Error running solver."}}) = 1

====
